---------------------------- MODULE Spec2Model ----------------------------
(***************************************************************************)
(* Model of the task-reminder bot of src/bot/main.py: the Task Store (the  *)
(* `tasks` table), the APScheduler job store, the per-user FSM storage of  *)
(* aiogram, the dispatcher's handler selection and the reminder callback.  *)
(* Message texts are sequences of one-character strings; the parsing of    *)
(* process_task_details is computed character by character.                *)
(***************************************************************************)
EXTENDS Integers, Sequences, FiniteSets, TLC

(***************************************************************************)
(* Bounds of the model.                                                    *)
(***************************************************************************)
MaxTasks == 2        \* rows the store may ever allocate
MaxTime  == 2        \* minutes the wall clock may advance past ClockStart
NumUsers == 1        \* chat users

Users   == 1..NumUsers
TaskIds == 1..MaxTasks

\* wall-clock reading at process start (datetime.now() when main() begins)
ClockStart == [Y |-> 2025, m |-> 3, d |-> 1, H |-> 9, M |-> 0]

(***************************************************************************)
(* Characters and strings.                                                 *)
(***************************************************************************)
DigitChars == <<"0", "1", "2", "3", "4", "5", "6", "7", "8", "9">>

IsDigit(c) == \E i \in 1..10 : DigitChars[i] = c

DigitVal(c) == (CHOOSE i \in 1..10 : DigitChars[i] = c) - 1

\* str.isspace() on one character
IsSpace(c) == c = " "

RECURSIVE RStrip(_)
RStrip(s) ==
    IF s = <<>> THEN <<>>
    ELSE IF IsSpace(s[Len(s)]) THEN RStrip(SubSeq(s, 1, Len(s) - 1))
    ELSE s

RECURSIVE LStrip(_)
LStrip(s) ==
    IF s = <<>> THEN <<>>
    ELSE IF IsSpace(s[1]) THEN LStrip(Tail(s))
    ELSE s

\* str.strip()
Strip(s) == LStrip(RStrip(s))

\* index of the first character of the last whitespace-free run of s,
\* for s non-empty and not ending in whitespace
RECURSIVE LastTokenStart(_, _)
LastTokenStart(s, i) ==
    IF i = 0 THEN 1
    ELSE IF IsSpace(s[i]) THEN i + 1
    ELSE LastTokenStart(s, i - 1)

\* str.rsplit(maxsplit=n) with the default (whitespace) separator
RECURSIVE RSplit(_, _)
RSplit(s, n) ==
    LET t == RStrip(s) IN
    IF t = <<>> THEN <<>>
    ELSE IF n = 0 THEN <<t>>
    ELSE LET k == LastTokenStart(t, Len(t)) IN
         RSplit(SubSeq(t, 1, k - 1), n - 1) \o <<SubSeq(t, k, Len(t))>>

\* " ".join(parts)
RECURSIVE JoinSpace(_)
JoinSpace(parts) ==
    IF parts = <<>> THEN <<>>
    ELSE IF Len(parts) = 1 THEN parts[1]
    ELSE parts[1] \o <<" ">> \o JoinSpace(Tail(parts))

\* parts[-2:]
LastTwo(parts) ==
    IF Len(parts) <= 2 THEN parts ELSE SubSeq(parts, Len(parts) - 1, Len(parts))

\* text[:-n] for n > 0
DropLast(s, n) == IF n >= Len(s) THEN <<>> ELSE SubSeq(s, 1, Len(s) - n)

\* str.split(sep) on a one-character separator
RECURSIVE SplitOn(_, _)
SplitOn(s, sep) ==
    IF \A i \in 1..Len(s) : s[i] # sep THEN <<s>>
    ELSE LET k == CHOOSE i \in 1..Len(s) :
                     s[i] = sep /\ \A j \in 1..(i - 1) : s[j] # sep
         IN <<SubSeq(s, 1, k - 1)>> \o SplitOn(SubSeq(s, k + 1, Len(s)), sep)

(***************************************************************************)
(* datetime.strptime(s, "%Y-%m-%d %H:%M")                                  *)
(***************************************************************************)
AllDigits(s) == \A i \in 1..Len(s) : IsDigit(s[i])

RECURSIVE NumVal(_)
NumVal(s) == IF s = <<>> THEN 0
             ELSE 10 * NumVal(SubSeq(s, 1, Len(s) - 1)) + DigitVal(s[Len(s)])

\* a directive of one or two digits (%m %d %H %M)
IsField(s) == Len(s) \in {1, 2} /\ AllDigits(s)

IsLeap(y) == (y % 4 = 0 /\ y % 100 # 0) \/ y % 400 = 0

DaysInMonth(y, m) ==
    IF m = 2 THEN (IF IsLeap(y) THEN 29 ELSE 28)
    ELSE IF m \in {4, 6, 9, 11} THEN 30 ELSE 31

ValueError == [error |-> "ValueError"]

strptime(s) ==
    LET halves == SplitOn(s, " ") IN
    IF Len(halves) # 2 THEN ValueError
    ELSE
    LET dp == SplitOn(halves[1], "-")
        tp == SplitOn(halves[2], ":")
    IN
    IF Len(dp) # 3 \/ Len(tp) # 2 THEN ValueError
    ELSE IF ~(Len(dp[1]) = 4 /\ AllDigits(dp[1]) /\ IsField(dp[2])
              /\ IsField(dp[3]) /\ IsField(tp[1]) /\ IsField(tp[2]))
    THEN ValueError
    ELSE
    LET y  == NumVal(dp[1])
        mo == NumVal(dp[2])
        dd == NumVal(dp[3])
        hh == NumVal(tp[1])
        mi == NumVal(tp[2])
    IN
    IF y >= 1 /\ mo \in 1..12 /\ dd >= 1 /\ dd <= DaysInMonth(y, mo)
       /\ hh \in 0..23 /\ mi \in 0..59
    THEN [Y |-> y, m |-> mo, d |-> dd, H |-> hh, M |-> mi]
    ELSE ValueError

\* days of the proleptic Gregorian calendar before year y
DaysBeforeYear(y) ==
    LET p == y - 1 IN 365 * p + (p \div 4) - (p \div 100) + (p \div 400)

RECURSIVE DaysBeforeMonth(_, _)
DaysBeforeMonth(y, m) ==
    IF m = 1 THEN 0 ELSE DaysBeforeMonth(y, m - 1) + DaysInMonth(y, m - 1)

\* position of a datetime on the time line, in minutes; datetime comparison
\* and subtraction are comparison and subtraction of these
Minutes(dt) ==
    ((DaysBeforeYear(dt.Y) + DaysBeforeMonth(dt.Y, dt.m) + dt.d - 1) * 24
       + dt.H) * 60 + dt.M


(***************************************************************************)
(* Message texts the chat transport may deliver.  The transport delivers   *)
(* text without leading or trailing whitespace; whitespace inside the text *)
(* is delivered as typed.                                                  *)
(***************************************************************************)
LastMinute == 1      \* latest minute (after ClockStart) a request may name

DateTok == <<"2", "0", "2", "5", "-", "0", "3", "-", "0", "1">>

TimeTok(mi) == <<"0", "9", ":", "0", DigitChars[mi + 1]>>

\* whitespace typed after the description and between date and time
Seps == { <<(<<" ">>), (<<" ">>)>>,
          <<(<<" ", " ">>), (<<" ">>)>>,
          <<(<<" ">>), (<<" ", " ">>)>> }

Descs == {<<"a">>}

WithDescTexts ==
    {d \o sp[1] \o DateTok \o sp[2] \o TimeTok(mi) :
        d \in Descs, sp \in Seps, mi \in 1..LastMinute}

NoDescTexts == {DateTok \o <<" ">> \o TimeTok(mi) : mi \in 1..LastMinute}

StartText == <<"/", "s", "t", "a", "r", "t">>

\* month and hour typed without the leading zero
UnpaddedTexts ==
    {<<"a", " ", "2", "0", "2", "5", "-", "3", "-", "0", "1", " ">>
        \o Tail(TimeTok(mi)) : mi \in 1..LastMinute}

MalformedTexts ==
    { <<"a">>,
      <<"a", " ", "t", "o", "m", "o", "r", "r", "o", "w">>,
      <<"a", " ", "2", "0", "2", "5", "-", "1", "3", "-", "0", "1", " ",
        "0", "9", ":", "0", "0">>,
      <<"a", " ", "b", " ", "c">> }

Texts == WithDescTexts \cup NoDescTexts \cup UnpaddedTexts
            \cup MalformedTexts \cup {StartText}

(***************************************************************************)
(* State.                                                                  *)
(***************************************************************************)
VARIABLES
    tasks,    \* the `tasks` table: id -> [user_id, description, scheduled_time]
    nextId,   \* next primary key the store assigns
    jobs,     \* pending jobs of `scheduler`
    nextJob,  \* next job id the scheduler assigns
    now,      \* minutes the wall clock has advanced past ClockStart
    fsm,      \* FSM storage: user -> [state, edit_task_id]
    sent,     \* history: task id -> the calls of send_reminder for it
    created,  \* history: id -> was scheduled_time in the future at creation
    reply     \* the answer the bot gave last to an update

vars == <<tasks, nextId, jobs, nextJob, now, fsm, sent, created, reply>>

ClockStartMinutes == Minutes(ClockStart)

\* datetime.now(), on the time line
NowMinutes == ClockStartMinutes + now

waiting_for_details == "AddTaskState:waiting_for_details"

NoState == "None"

\* state.clear(): no state, empty data
Cleared == [state |-> NoState, edit_task_id |-> 0]

\* an answer to a chat; `listed` is the task list it shows, if any
Reply(chat, kind) == [chat |-> chat, kind |-> kind, listed |-> {}]

(***************************************************************************)
(* Task Store operations.                                                  *)
(***************************************************************************)
add_task_db(store, id, user_id, description, scheduled_time) ==
    [i \in DOMAIN store \cup {id} |->
        IF i = id
        THEN [user_id |-> user_id, description |-> description,
              scheduled_time |-> scheduled_time]
        ELSE store[i]]

\* variant of get_tasks_db: SELECT without the WHERE clause
get_tasks_db_of_every_user(store, user_id) == DOMAIN store

get_tasks_db(store, user_id) ==
    {i \in DOMAIN store : store[i].user_id = user_id}

\* variant of delete_task_db: DELETE without the WHERE clause
delete_task_db_every_row(store, task_id) == [i \in {} |-> store[i]]

delete_task_db(store, task_id) ==
    [i \in DOMAIN store \ {task_id} |-> store[i]]

\* variant of update_task_db: UPDATE without the WHERE clause
update_task_db_every_row(store, task_id, new_description) ==
    [i \in DOMAIN store |-> [store[i] EXCEPT !.description = new_description]]

update_task_db(store, task_id, new_description) ==
    [i \in DOMAIN store |->
        IF i = task_id THEN [store[i] EXCEPT !.description = new_description]
        ELSE store[i]]

\* web view: select(Task)
read_tasks(store) == DOMAIN store

Init ==
    /\ tasks = <<>>
    /\ nextId = 1
    /\ jobs = {}
    /\ nextJob = 1
    /\ now = 0
    /\ fsm = [u \in Users |-> Cleared]
    /\ sent = [i \in TaskIds |-> <<>>]
    /\ created = <<>>
    /\ reply = Reply(0, "none")

(***************************************************************************)
(* Dispatcher: the first registered handler whose filters pass handles the *)
(* update.                                                                 *)
(***************************************************************************)
\* Command("start"): the first word of the text is /start
IsStartCommand(text) == SplitOn(text, " ")[1] = StartText

MessageHandlers ==
    <<"start_handler", "process_task_details", "process_new_description">>

\* the texts the Command("start") filter passes, computed once
StartCommands == {text \in Texts : IsStartCommand(text)}

MessageFilters(u, text) ==
    << text \in StartCommands,
       fsm[u].state = waiting_for_details,
       fsm[u].state = waiting_for_details >>

MessageHandler(u, text) ==
    LET f == MessageFilters(u, text)
        hits == {i \in 1..Len(f) : f[i]}
    IN IF hits = {} THEN "UNHANDLED"
       ELSE MessageHandlers[CHOOSE i \in hits : \A j \in hits : i <= j]

(***************************************************************************)
(* Message handlers.                                                       *)
(***************************************************************************)
start_handler(u) ==
    /\ reply' = Reply(u, "menu")
    /\ UNCHANGED <<tasks, nextId, jobs, nextJob, now, fsm, sent, created>>

misfire_grace_time == 60     \* seconds

\* variants of add_job: the job is not registered; it is registered twice
add_job_not_registered(store, id, user_id, description, run_date, task) ==
    store

add_job_registered_twice(store, id, user_id, description, run_date, task) ==
    store \cup {[id |-> i, run_date |-> run_date, user_id |-> user_id,
                 description |-> description, task |-> task] :
                    i \in {id, id + MaxTasks}}

\* scheduler.add_job(send_reminder, DateTrigger(run_date), args=[user_id,
\* description], misfire_grace_time=60).  `task` is history: the row the
\* same request stored; the scheduler does not know it.
add_job(store, id, user_id, description, run_date, task) ==
    store \cup {[id |-> id, run_date |-> run_date, user_id |-> user_id,
                 description |-> description, task |-> task]}

\* variant of parse_details: a timestamp that does not parse falls back to
\* the current start-of-run time instead of being rejected
parse_details_with_fallback(text) ==
    LET parts == RSplit(text, 2) IN
    IF Len(parts) < 2 THEN [error |-> "bad_format"]
    ELSE
    LET datetime_str   == JoinSpace(LastTwo(parts))
        description    == Strip(DropLast(text, Len(datetime_str)))
        scheduled_time == strptime(datetime_str)
    IN
    [error |-> "", description |-> description,
     scheduled_time |-> IF scheduled_time = ValueError THEN ClockStart
                        ELSE scheduled_time]

\* lines 143-154: the request text split into description and time, or the
\* error answered
parse_details(text) ==
    LET parts == RSplit(text, 2) IN
    IF Len(parts) < 2 THEN [error |-> "bad_format"]
    ELSE
    LET datetime_str   == JoinSpace(LastTwo(parts))
        description    == Strip(DropLast(text, Len(datetime_str)))
        scheduled_time == strptime(datetime_str)
    IN
    IF scheduled_time = ValueError THEN [error |-> "bad_datetime"]
    ELSE [error |-> "", description |-> description,
          scheduled_time |-> scheduled_time]

\* variant of in_future: >= instead of >
in_future_or_now(scheduled_time, t) == Minutes(scheduled_time) >= t

\* scheduled_time > datetime.now()
in_future(scheduled_time, t) == Minutes(scheduled_time) > t

\* parse_details of every text the model draws, computed once
parsed_details == [text \in Texts |-> parse_details(text)]

process_task_details(u, text) ==
    LET parsed == parsed_details[text] IN
    IF parsed.error # ""
    THEN /\ reply' = Reply(u, parsed.error)
         /\ UNCHANGED <<tasks, nextId, jobs, nextJob, now, fsm, sent, created>>
    ELSE /\ nextId <= MaxTasks
         /\ tasks' = add_task_db(tasks, nextId, u, parsed.description,
                                 parsed.scheduled_time)
         /\ nextId' = nextId + 1
         /\ created' = created @@
                (nextId :> (Minutes(parsed.scheduled_time) > NowMinutes))
         /\ IF in_future(parsed.scheduled_time, NowMinutes)
            THEN /\ jobs' = add_job(jobs, nextJob, u, parsed.description,
                                    parsed.scheduled_time, nextId)
                 /\ nextJob' = nextJob + 1
                 /\ reply' = Reply(u, "scheduled")
            ELSE /\ UNCHANGED <<jobs, nextJob>>
                 /\ reply' = Reply(u, "no_reminder")
         /\ fsm' = [fsm EXCEPT ![u] = Cleared]
         /\ UNCHANGED <<now, sent>>

process_new_description(u, text) ==
    /\ LET task_id == fsm[u].edit_task_id IN
       IF task_id # 0
       THEN /\ tasks' = update_task_db(tasks, task_id, text)
            /\ reply' = Reply(u, "updated")
            /\ fsm' = [fsm EXCEPT ![u] = Cleared]
       ELSE UNCHANGED <<tasks, fsm, reply>>
    /\ UNCHANGED <<nextId, jobs, nextJob, now, sent, created>>

\* dp.message: a text message of user u reaches the first handler whose
\* filters pass; with none, the update is dropped
message(u, text) ==
    LET handler == MessageHandler(u, text) IN
    CASE handler = "start_handler"           -> start_handler(u)
      [] handler = "process_task_details"    -> process_task_details(u, text)
      [] handler = "process_new_description" -> process_new_description(u, text)
      [] OTHER                               -> UNCHANGED vars

(***************************************************************************)
(* Callback-query handlers.  The callback data is chosen by the client;    *)
(* the handlers read the task id out of it and check nothing else.         *)
(***************************************************************************)
menu_add_task_handler(u) ==
    /\ fsm' = [fsm EXCEPT ![u].state = waiting_for_details]
    /\ reply' = Reply(u, "enter_task")
    /\ UNCHANGED <<tasks, nextId, jobs, nextJob, now, sent, created>>

menu_view_tasks_handler(u) ==
    /\ reply' = [chat |-> u, kind |-> "tasks", listed |-> get_tasks_db(tasks, u)]
    /\ UNCHANGED <<tasks, nextId, jobs, nextJob, now, fsm, sent, created>>

menu_help_handler(u) ==
    /\ reply' = Reply(u, "help")
    /\ UNCHANGED <<tasks, nextId, jobs, nextJob, now, fsm, sent, created>>

confirm_delete(u, task_id) ==
    /\ reply' = Reply(u, "confirm_delete")
    /\ UNCHANGED <<tasks, nextId, jobs, nextJob, now, fsm, sent, created>>

delete_task_callback(u, task_id) ==
    /\ tasks' = delete_task_db(tasks, task_id)
    /\ reply' = Reply(u, "deleted")
    /\ UNCHANGED <<nextId, jobs, nextJob, now, fsm, sent, created>>

cancel_callback(u) ==
    /\ reply' = Reply(u, "cancelled")
    /\ UNCHANGED <<tasks, nextId, jobs, nextJob, now, fsm, sent, created>>

\* variant of edit_task_callback: it also puts the session into the state
\* the text handlers wait for
edit_task_callback_sets_state(u, task_id) ==
    /\ fsm' = [fsm EXCEPT ![u] = [state |-> waiting_for_details,
                                  edit_task_id |-> task_id]]
    /\ reply' = Reply(u, "enter_description")
    /\ UNCHANGED <<tasks, nextId, jobs, nextJob, now, sent, created>>

edit_task_callback(u, task_id) ==
    /\ fsm' = [fsm EXCEPT ![u].edit_task_id = task_id]
    /\ reply' = Reply(u, "enter_description")
    /\ UNCHANGED <<tasks, nextId, jobs, nextJob, now, sent, created>>

(***************************************************************************)
(* Scheduler and clock.                                                    *)
(***************************************************************************)
Due(j) == Minutes(j.run_date) <= NowMinutes

\* variant of send_reminder: the job stays in the job store after its run
send_reminder_job_kept(j, delivered) ==
    /\ j \in jobs
    /\ Minutes(j.run_date) <= NowMinutes
    /\ sent' = [sent EXCEPT ![j.task] =
                    Append(@, [user_id |-> j.user_id, text |-> j.description,
                               delivered |-> delivered,
                               row |-> IF j.task \in DOMAIN tasks
                                       THEN <<tasks[j.task].description>>
                                       ELSE <<>>])]
    /\ UNCHANGED <<tasks, nextId, jobs, nextJob, now, fsm, created, reply>>

\* variant of send_reminder: the exception of a failed delivery is not caught
\* and stops the scheduler, which loses its other pending jobs
send_reminder_failure_propagates(j, delivered) ==
    /\ j \in jobs
    /\ Minutes(j.run_date) <= NowMinutes
    /\ jobs' = IF delivered THEN jobs \ {j} ELSE {}
    /\ sent' = [sent EXCEPT ![j.task] =
                    Append(@, [user_id |-> j.user_id, text |-> j.description,
                               delivered |-> delivered,
                               row |-> IF j.task \in DOMAIN tasks
                                       THEN <<tasks[j.task].description>>
                                       ELSE <<>>])]
    /\ UNCHANGED <<tasks, nextId, nextJob, now, fsm, created, reply>>

\* send_reminder(user_id, task_description), run by the scheduler for a due
\* job; a one-shot job leaves the job store when it is run.  bot.send_message
\* may raise; the exception is caught and printed.
send_reminder(j, delivered) ==
    /\ j \in jobs
    /\ Due(j)
    /\ jobs' = jobs \ {j}
    /\ sent' = [sent EXCEPT ![j.task] =
                    Append(@, [user_id |-> j.user_id, text |-> j.description,
                               delivered |-> delivered,
                               row |-> IF j.task \in DOMAIN tasks
                                       THEN <<tasks[j.task].description>>
                                       ELSE <<>>])]
    /\ UNCHANGED <<tasks, nextId, nextJob, now, fsm, created, reply>>

\* the scheduler wakes up and runs a pending job that is due
run_due_job == \E j \in jobs, delivered \in BOOLEAN : send_reminder(j, delivered)

\* the running scheduler wakes up for a job at its run time: the clock does
\* not pass a pending job's misfire grace while the process runs
Tick ==
    /\ now < MaxTime
    /\ \A j \in jobs :
          (NowMinutes + 1 - Minutes(j.run_date)) * 60 <= misfire_grace_time
    /\ now' = now + 1
    /\ UNCHANGED <<tasks, nextId, jobs, nextJob, fsm, sent, created, reply>>

Next ==
    \/ \E u \in Users, text \in Texts : message(u, text)
    \/ \E u \in Users : menu_add_task_handler(u)
    \/ \E u \in Users : menu_view_tasks_handler(u)
    \/ \E u \in Users : menu_help_handler(u)
    \/ \E u \in Users, task_id \in TaskIds : confirm_delete(u, task_id)
    \/ \E u \in Users, task_id \in TaskIds : delete_task_callback(u, task_id)
    \/ \E u \in Users : cancel_callback(u)
    \/ \E u \in Users, task_id \in TaskIds : edit_task_callback(u, task_id)
    \/ run_due_job
    \/ Tick

Spec == Init /\ [][Next]_vars

\* the scheduler runs while the process runs, and time passes
LiveSpec ==
    /\ Spec
    /\ WF_vars(Tick)
    /\ WF_vars(run_due_job)

(***************************************************************************)
(* Restart.  The process stops, is away for `downtime` minutes and main()  *)
(* runs again.  The tasks table is a database and survives; `scheduler`    *)
(* keeps its jobs in memory and `dp` keeps the sessions in memory, so both *)
(* start empty.  main() reads no row and adds no job.                      *)
(***************************************************************************)
restart(downtime) ==
    /\ now + downtime <= MaxTime
    /\ now' = now + downtime
    /\ jobs' = {}
    /\ fsm' = [u \in Users |-> Cleared]
    /\ UNCHANGED <<tasks, nextId, nextJob, sent, created, reply>>

RestartNext ==
    \/ Next
    \/ \E downtime \in 0..MaxTime : restart(downtime)

RestartSpec == Init /\ [][RestartNext]_vars

(***************************************************************************)
(* The edit handler on its own.  The dispatcher above never reaches        *)
(* process_new_description; here the handler is called directly with a     *)
(* message that passes its filter, to see what it and update_task_db do    *)
(* to the state when they run.                                             *)
(***************************************************************************)
\* the texts sent as a new description
NewDescriptions == { <<"a">>, <<"a", " ", "b", " ", "c">> }

new_description_message(u, text) ==
    /\ fsm[u].state = waiting_for_details
    /\ process_new_description(u, text)

UpdateNext ==
    \/ Next
    \/ \E u \in Users, text \in NewDescriptions : new_description_message(u, text)

UpdateSpec == Init /\ [][UpdateNext]_vars

(***************************************************************************)
(* Two chats and the web view.  The bot serves a second user next to the   *)
(* first, and the web application answers GET / from the same table.  The  *)
(* clock stands still: only the handlers that store, list and delete run.  *)
(***************************************************************************)
OtherUser == NumUsers + 1

ListUsers == Users \cup {OtherUser}

\* the texts the two users send
ListTexts ==
    { <<"a">> \o <<" ">> \o DateTok \o <<" ">> \o TimeTok(LastMinute),
      <<"a">>,
      StartText }

ListInit ==
    /\ tasks = <<>>
    /\ nextId = 1
    /\ jobs = {}
    /\ nextJob = 1
    /\ now = 0
    /\ fsm = [u \in ListUsers |-> Cleared]
    /\ sent = [i \in TaskIds |-> <<>>]
    /\ created = <<>>
    /\ reply = Reply(0, "none")

\* GET / of the web view: the page lists every stored task; it is sent to
\* no chat
read_tasks_request ==
    /\ reply' = [chat |-> 0, kind |-> "page", listed |-> read_tasks(tasks)]
    /\ UNCHANGED <<tasks, nextId, jobs, nextJob, now, fsm, sent, created>>

ListNext ==
    \/ \E u \in ListUsers, text \in ListTexts : message(u, text)
    \/ \E u \in ListUsers : menu_add_task_handler(u)
    \/ \E u \in ListUsers : menu_view_tasks_handler(u)
    \/ \E u \in ListUsers, task_id \in TaskIds : delete_task_callback(u, task_id)
    \/ \E u \in ListUsers, task_id \in TaskIds : edit_task_callback(u, task_id)
    \/ read_tasks_request

ListSpec == ListInit /\ [][ListNext]_vars

(***************************************************************************)
(* Vocabulary of the properties.                                           *)
(***************************************************************************)
\* the pending scheduler entries that belong to a task
JobsOf(id) == {j \in jobs : j.task = id}

\* the task was created with its scheduled time strictly in the future
FutureAtCreation(id) == id \in DOMAIN created /\ created[id]

PastAtCreation(id) == id \in DOMAIN created /\ ~created[id]

\* the whitespace-separated tokens of a text
RECURSIVE Words(_)
Words(s) ==
    LET t == LStrip(s) IN
    IF t = <<>> THEN <<>>
    ELSE LET ends == {i \in 1..Len(t) : IsSpace(t[i])}
             n == IF ends = {} THEN Len(t)
                  ELSE (CHOOSE i \in ends : \A k \in ends : i <= k) - 1
         IN <<SubSeq(t, 1, n)>> \o Words(SubSeq(t, n + 1, Len(t)))

\* the timestamp the last two tokens of a text spell, or ValueError
TimestampOf(text) ==
    LET w == Words(text) IN
    IF Len(w) < 2 THEN ValueError
    ELSE strptime(w[Len(w) - 1] \o <<" ">> \o w[Len(w)])

ParseFails(text) == TimestampOf(text) = ValueError

\* a text without its last token and the whitespace around that token
BeforeLastToken(s) ==
    LET t == RStrip(s) IN
    IF t = <<>> THEN <<>> ELSE SubSeq(t, 1, LastTokenStart(t, Len(t)) - 1)

\* everything that precedes the last two tokens, trimmed
DescriptionOf(text) == Strip(BeforeLastToken(BeforeLastToken(text)))

\* the texts whose parse fails, and the others with the time they name
FailingTexts == {text \in Texts : ParseFails(text)}

ValidTexts == Texts \ FailingTexts

TimeNamed == [text \in ValidTexts |-> Minutes(TimestampOf(text))]

\* user u sends `text` as an add-request and the bot handles it
AddRequest(u, text) ==
    /\ fsm[u].state = waiting_for_details
    /\ MessageHandler(u, text) = "process_task_details"
    /\ message(u, text)

ErrorKinds == {"bad_format", "bad_datetime"}

(***************************************************************************)
(* C1: no reminder is ever delivered for a task whose row is already gone  *)
(* from the Task Store when the reminder callback runs.                    *)
(***************************************************************************)
C1_NoReminderForDeletedTask ==
    \A id \in TaskIds : \A k \in 1..Len(sent[id]) :
        sent[id][k].delivered => sent[id][k].row # <<>>

(***************************************************************************)
(* C2: whenever a reminder for a task is delivered, the text delivered is  *)
(* the description the Task Store holds for that task at that moment.      *)
(***************************************************************************)
C2_ReminderTextIsStoredDescription ==
    \A id \in TaskIds : \A k \in 1..Len(sent[id]) :
        sent[id][k].delivered => sent[id][k].row = <<sent[id][k].text>>

(***************************************************************************)
(* C3: a task created with its time in the future gets exactly one         *)
(* reminder: unless the task is deleted, send_reminder is eventually       *)
(* called for it, and it is never called for it a second time.             *)
(***************************************************************************)
C3_ExactlyOneReminder ==
    /\ [](\A id \in TaskIds : Len(sent[id]) <= 1)
    /\ \A id \in TaskIds :
          FutureAtCreation(id) ~> (Len(sent[id]) = 1 \/ id \notin DOMAIN tasks)

C3_Witness ==
    \E id \in DOMAIN tasks : FutureAtCreation(id) /\ Len(sent[id]) = 1

(***************************************************************************)
(* C4: an add-request whose time is not in the future is answered with the *)
(* "no reminder" outcome, stores the task and creates no scheduler entry;  *)
(* such a task never has a scheduler entry or a reminder, and the owner's  *)
(* task list shows it while it is stored.                                  *)
(***************************************************************************)
C4_PastTaskState ==
    /\ \A id \in TaskIds :
          PastAtCreation(id) => JobsOf(id) = {} /\ sent[id] = <<>>
    /\ reply.kind = "tasks" =>
          \A id \in DOMAIN tasks :
              tasks[id].user_id = reply.chat => id \in reply.listed

C4_PastAddStep ==
    \A u \in Users, text \in ValidTexts :
        (/\ fsm[u].state = waiting_for_details
         /\ TimeNamed[text] <= NowMinutes
         /\ AddRequest(u, text))
        => /\ reply' = Reply(u, "no_reminder")
           /\ nextId \in DOMAIN tasks'
           /\ tasks'[nextId].user_id = u
           /\ jobs' = jobs

C4_PastAddStoredWithoutReminder ==
    [](C4_PastTaskState) /\ [][C4_PastAddStep]_vars

C4_Witness ==
    \E id \in DOMAIN tasks :
        /\ PastAtCreation(id)
        /\ reply.kind = "tasks" /\ id \in reply.listed
        /\ NowMinutes > Minutes(tasks[id].scheduled_time)

(***************************************************************************)
(* C5: an add-request whose text fails to parse is answered with an error  *)
(* and changes neither the Task Store nor the pending scheduler entries.   *)
(***************************************************************************)
C5_ParseFailureChangesNothing ==
    [][\A u \in Users, text \in FailingTexts :
          AddRequest(u, text)
          => /\ reply'.kind \in ErrorKinds
             /\ reply'.chat = u
             /\ tasks' = tasks
             /\ jobs' = jobs]_vars

C5_Witness ==
    /\ reply.kind \in ErrorKinds
    /\ tasks # <<>>
    /\ jobs # {}

(***************************************************************************)
(* C6: an add-request whose last two tokens spell a valid timestamp stores *)
(* that timestamp and, as description, everything before those two tokens, *)
(* trimmed - whatever the amount of whitespace between the tokens.         *)
(***************************************************************************)
C6_StoredDescriptionPrecedesTimestamp ==
    [][\A u \in Users, text \in ValidTexts :
          AddRequest(u, text)
          => /\ nextId \in DOMAIN tasks'
             /\ tasks'[nextId].scheduled_time = TimestampOf(text)
             /\ tasks'[nextId].description = DescriptionOf(text)]_vars

C8_AtMostOneEntryPerTask ==
    \A id \in TaskIds : Cardinality(JobsOf(id)) <= 1

C8_Witness ==
    /\ Cardinality(jobs) = 2
    /\ \A id \in DOMAIN tasks : Cardinality(JobsOf(id)) = 1

(***************************************************************************)
(* C9: deleting a task id that is not in the Task Store changes no task    *)
(* row and no pending scheduler entry, so that a repeated delete leaves    *)
(* the state as the first one left it.                                     *)
(***************************************************************************)
C9_DeleteOfAbsentIdIsNoOp ==
    [][\A u \in Users, id \in TaskIds :
          (delete_task_callback(u, id) /\ id \notin DOMAIN tasks)
          => /\ tasks' = tasks
             /\ jobs' = jobs
             /\ sent' = sent
             /\ fsm' = fsm]_vars

\* a delete has just been answered although every row ever stored is still
\* there: it named an id the store never held
C9_Witness ==
    /\ reply.kind = "deleted"
    /\ nextId > 1
    /\ DOMAIN tasks = 1..(nextId - 1)
    /\ jobs # {}

(***************************************************************************)
(* C10: a delete of a task id that is not in the Task Store is never       *)
(* answered as a successful delete.                                        *)
(***************************************************************************)
C10_DeleteOfAbsentIdReportsNotFound ==
    [][\A u \in Users, id \in TaskIds :
          (delete_task_callback(u, id) /\ id \notin DOMAIN tasks)
          => reply'.kind # "deleted"]_vars

(***************************************************************************)
(* C11: a reminder whose delivery fails is discarded: its one-shot entry   *)
(* leaves the scheduler and is never run again, and the run - failed or    *)
(* not - changes no task row and no other pending entry, nor the clock or  *)
(* any session.                                                            *)
(***************************************************************************)
C11_FiringStep ==
    \A j \in jobs, delivered \in BOOLEAN :
        send_reminder(j, delivered)
        => /\ tasks' = tasks
           /\ jobs' = jobs \ {j}
           /\ nextJob' = nextJob
           /\ now' = now
           /\ fsm' = fsm
           /\ \A id \in TaskIds \ {j.task} : sent'[id] = sent[id]

C11_FailedDeliveryIsDiscarded ==
    /\ [][C11_FiringStep]_vars
    /\ [](\A id \in TaskIds : \A k \in 1..Len(sent[id]) :
            ~sent[id][k].delivered => Len(sent[id]) = 1 /\ JobsOf(id) = {})

\* the delivery for one task has failed, its row is still stored, and the
\* entry of another task is still pending and due
C11_Witness ==
    \E a, b \in DOMAIN tasks :
        /\ a # b
        /\ Len(sent[a]) = 1 /\ ~sent[a][1].delivered
        /\ sent[b] = <<>>
        /\ \E j \in JobsOf(b) : Due(j)

(***************************************************************************)
(* C12: when the process is away at the fire time of a pending reminder of *)
(* a stored task (it restarts) and is back no later than the grace window  *)
(* after that fire time, the reminder is not lost: its entry is still      *)
(* pending when the process is back.                                       *)
(***************************************************************************)
C12_RestartWithinGraceKeepsReminder ==
    [][\A downtime \in 0..MaxTime :
          restart(downtime)
          => \A j \in jobs :
                (/\ j.task \in DOMAIN tasks
                 /\ NowMinutes <= Minutes(j.run_date)
                 /\ Minutes(j.run_date) <= NowMinutes + downtime
                 /\ (NowMinutes + downtime - Minutes(j.run_date)) * 60
                        <= misfire_grace_time)
                => j \in jobs']_vars

(***************************************************************************)
(* C13: when a user has pressed the edit button of a stored task and then  *)
(* sends a text, the stored description of that task becomes that text and *)
(* the user is answered "updated", in whatever FSM state the session is.   *)
(***************************************************************************)
C13_TextAfterEditUpdatesDescription ==
    [][\A u \in Users, text \in Texts \ StartCommands :
          \A task_id \in DOMAIN tasks :
              (fsm[u].edit_task_id = task_id /\ message(u, text))
              => /\ task_id \in DOMAIN tasks'
                 /\ tasks'[task_id].description = text
                 /\ reply' = Reply(u, "updated")]_vars

(***************************************************************************)
(* C14: the add flow and the edit flow are never confused: a text sent     *)
(* while an edit of a stored task is pending stores no new task and        *)
(* schedules nothing, and a text sent with no edit pending changes no      *)
(* stored row and is not answered "updated".                               *)
(***************************************************************************)
C14_AddAndEditFlowsNeverConfused ==
    [][\A u \in Users, text \in Texts \ StartCommands :
          message(u, text)
          => /\ fsm[u].edit_task_id \in DOMAIN tasks
                => /\ DOMAIN tasks' = DOMAIN tasks
                   /\ jobs' = jobs
             /\ fsm[u].edit_task_id = 0
                => /\ \A id \in DOMAIN tasks : tasks'[id] = tasks[id]
                   /\ reply'.kind # "updated"]_vars

(***************************************************************************)
(* C15: an add-request without a description is rejected: no task with an  *)
(* empty description is ever in the Task Store.                            *)
(***************************************************************************)
C15_NoTaskWithEmptyDescription ==
    \A id \in DOMAIN tasks : tasks[id].description # <<>>

(***************************************************************************)
(* C16: updating the description of a task changes the description of      *)
(* that task and nothing else: its id, owner and scheduled time, every     *)
(* other row and every pending scheduler entry stay as they were.          *)
(***************************************************************************)
C16_UpdateChangesOnlyThatDescription ==
    [][\A u \in Users, text \in NewDescriptions :
          (fsm[u].edit_task_id # 0 /\ new_description_message(u, text))
          => /\ DOMAIN tasks' = DOMAIN tasks
             /\ \A i \in DOMAIN tasks :
                   /\ tasks'[i].user_id = tasks[i].user_id
                   /\ tasks'[i].scheduled_time = tasks[i].scheduled_time
                   /\ tasks'[i].description =
                         IF i = fsm[u].edit_task_id THEN text
                         ELSE tasks[i].description
             /\ jobs' = jobs
             /\ nextId' = nextId]_vars

\* a task has just got a description only an update can give it, while the
\* other task is stored with another description and both have a pending
\* scheduler entry
C16_Witness ==
    /\ reply.kind = "updated"
    /\ \E a, b \in DOMAIN tasks :
          /\ tasks[a].description = <<"a", " ", "b", " ", "c">>
          /\ tasks[b].description # tasks[a].description
          /\ JobsOf(a) # {}
          /\ JobsOf(b) # {}

(***************************************************************************)
(* C17: a session enters waiting_for_details only when its user presses    *)
(* 'add task'; an add-request that stores a task, with a future or a past  *)
(* time, leaves the session idle with no data; an add-request that is      *)
(* rejected leaves the session in waiting_for_details.                     *)
(***************************************************************************)
C17_SessionStep ==
    \A u \in Users :
        /\ (fsm[u].state # waiting_for_details
              /\ fsm'[u].state = waiting_for_details)
           => menu_add_task_handler(u)
        /\ \A text \in Texts :
              AddRequest(u, text)
              => IF DOMAIN tasks' # DOMAIN tasks
                 THEN /\ reply'.kind \in {"scheduled", "no_reminder"}
                      /\ fsm'[u].state = NoState
                      /\ fsm'[u].edit_task_id = 0
                 ELSE /\ reply'.kind \in ErrorKinds
                      /\ fsm'[u].state = waiting_for_details

C17_AddFlowSessionState == [][C17_SessionStep]_vars

\* a task with a past time has just been stored after one with a future
\* time, and the session is idle
C17_Witness ==
    \E u \in Users :
        /\ reply = Reply(u, "no_reminder")
        /\ fsm[u].state = NoState
        /\ fsm[u].edit_task_id = 0
        /\ \E a, b \in DOMAIN tasks : FutureAtCreation(a) /\ PastAtCreation(b)

(***************************************************************************)
(* C18: the task list a user asks for shows exactly the stored tasks of    *)
(* that user - every one of them and none of another user - and neither    *)
(* the list nor the page of the web view changes a task row, a pending     *)
(* scheduler entry or a session.                                           *)
(***************************************************************************)
C18_ListStep ==
    /\ \A u \in ListUsers :
          menu_view_tasks_handler(u)
          => /\ reply'.chat = u
             /\ \A id \in TaskIds :
                   id \in reply'.listed
                   <=> (id \in DOMAIN tasks /\ tasks[id].user_id = u)
             /\ tasks' = tasks
             /\ jobs' = jobs
             /\ fsm' = fsm
    /\ read_tasks_request
          => /\ tasks' = tasks
             /\ jobs' = jobs
             /\ fsm' = fsm

C18_ListingIsReadOnlyAndPerUser == [][C18_ListStep]_vars

\* a user has just been shown a list with a task in it, while a task of the
\* other user is stored and not in the list, entries are pending and the
\* other user is in the middle of an add
C18_Witness ==
    /\ reply.kind = "tasks"
    /\ reply.listed # {}
    /\ \E id \in DOMAIN tasks :
          /\ tasks[id].user_id # reply.chat
          /\ id \notin reply.listed
          /\ fsm[tasks[id].user_id].state = waiting_for_details
    /\ jobs # {}

=============================================================================
